---- MODULE Spec2Model ----
(***************************************************************************)
(* A model of libhidl's base/HidlSupport.cpp: the value types hidl_string  *)
(* and hidl_handle, and the transport lookup getTransport.                 *)
(*                                                                         *)
(* Every public member function is one action.  The private helpers        *)
(* (copyFrom, moveFrom, clear, freeHandle) are operators on a snapshot of  *)
(* the memory, so that an action is the composition its code is.           *)
(***************************************************************************)
EXTENDS Integers, Sequences, FiniteSets, TLC

\* ------------------------------------------------------------------ bounds
\* hidl_string objects the client program has storage for.
NStr == 2
\* malloc'ed buffers that can be allocated at one time (plus freed ones a
\* value still points to).
MaxBuf == 3
\* hidl_handle objects the client program has storage for.
NHnd == 2
\* native_handle_t records the caller creates itself.
NExtRec == 2
\* Records native_handle_clone can have outstanding.
MaxClone == 2

VARIABLES
    sAlive,        \* hidl_string objects whose lifetime has begun and not ended
    mBuffer,       \* hidl_string::mBuffer   (a pointer)
    mSize,         \* hidl_string::mSize     (uint32_t)
    mOwnsBuffer,   \* hidl_string::mOwnsBuffer
    heap,          \* the C allocator's blocks: state, bytes, calls of free()
    extFrees,      \* calls of free() on memory that malloc never returned
    extMem,        \* the bytes of the memory the caller lends
    sOp,           \* the hidl_string operation the client performed last
    hAlive,        \* hidl_handle objects whose lifetime has begun and not ended
    mHandle,       \* hidl_handle::mHandle  (a pointer)
    mOwnsHandle,   \* hidl_handle::mOwnsHandle
    rec,           \* the native_handle_t records: state, closes, deletes
    given,         \* records the caller handed over by setTo(record, true)
    hcalls,        \* the native_handle_* calls the last operation made
    hOp,           \* the hidl_handle operation the client performed last
    frameworkManifest,  \* what VintfObject::GetFrameworkHalManifest() returns
    deviceManifest,     \* what VintfObject::GetDeviceHalManifest() returns
    tName,         \* the argument of the last getTransport call
    tRet,          \* what it returned
    tLog,          \* the log records it emitted
    tCalls,        \* the calls it made on FQName, VintfObject and HalManifest
    fatal          \* LOG(FATAL) was reached (or the process crashed): aborted

strVars == <<sAlive, mBuffer, mSize, mOwnsBuffer, heap, extFrees, extMem, sOp>>
hndVars == <<hAlive, mHandle, mOwnsHandle, rec, given, hcalls, hOp>>
manifestVars == <<frameworkManifest, deviceManifest>>
trVars == <<tName, tRet, tLog, tCalls>>
vars == <<strVars, hndVars, manifestVars, trVars, fatal>>

\* ---------------------------------------------------------------- memory
Str == 1..NStr
Heap == 1..MaxBuf
Byte == {0, 1}

\* A size_t is a 64-bit number hi * 2^32 + lo with 0 <= lo < 2^32, kept as
\* its two halves (TLC's integers are narrower than size_t).
SizeT(n) == [hi |-> 0, lo |-> n]
\* size > UINT32_MAX
ExceedsUint32(size) == size.hi > 0
\* static_cast<uint32_t>(size): the low 32 bits.
U32(size) == size.lo

\* static const char *const kEmptyString = "";
kEmptyString == [k |-> "lit", id |-> 0]
nullptr == [k |-> "null", id |-> 0]
HeapPtr(b) == [k |-> "heap", id |-> b]

\* Memory the caller manages and lends to the component: NUL-terminated
\* regions, the second one an empty C string with bytes after its zero.
ExtMem == << <<1, 0>>, <<0, 1, 0>> >>
ExtPtr(i) == [k |-> "ext", id |-> i]
ExtPtrs == {ExtPtr(i) : i \in 1..Len(ExtMem)}

\* What the caller passes as (const char *data, size_t size): a lent region
\* and a length within it (its last zero byte left out), or a length beyond
\* UINT32_MAX.
DataArgs ==
    UNION {{[data |-> ExtPtr(i), size |-> SizeT(n)] : n \in 0..(Len(ExtMem[i]) - 1)} :
              i \in 1..Len(ExtMem)}
        \cup {[data |-> ExtPtr(1), size |-> [hi |-> 1, lo |-> 0]]}

\* What the caller passes as (const char *s): a lent NUL-terminated region or
\* a null pointer.
CStrArgs == ExtPtrs \cup {nullptr}

\* An operation of the client: its name, the object it is called on and the
\* other object it takes (the object itself when it takes none).
Op(name, self, other) == [name |-> name, self |-> self, other |-> other]

\* The state the helpers work on.
Cur ==
    [alive |-> sAlive, mBuffer |-> mBuffer, mSize |-> mSize,
     mOwnsBuffer |-> mOwnsBuffer, heap |-> heap, extFrees |-> extFrees,
     ext |-> extMem, fatal |-> fatal]

\* A freed block whose address no object holds any more cannot be told from
\* one never allocated (a block freed twice stays, as the record of that).
Forget(m) ==
    [b \in DOMAIN m.heap |->
        IF /\ m.heap[b].st = "freed" /\ m.heap[b].frees <= 1
           /\ \A v \in DOMAIN m.mBuffer : m.mBuffer[v] # [k |-> "heap", id |-> b]
        THEN [st |-> "unalloc", bytes |-> << >>, frees |-> 0]
        ELSE m.heap[b]]

Commit(m) ==
    /\ sAlive' = m.alive
    /\ mBuffer' = m.mBuffer
    /\ mSize' = m.mSize
    /\ mOwnsBuffer' = m.mOwnsBuffer
    /\ heap' = Forget(m)
    /\ extFrees' = m.extFrees
    /\ extMem' = m.ext
    /\ fatal' = m.fatal
    /\ UNCHANGED <<hndVars, manifestVars, trVars>>

AnyBytes(n) == [1..n -> Byte]

\* The bytes a read of n bytes at p can give.  Reading a freed block, or past
\* the end of a block, is undefined: any bytes.
Read(m, p, n) ==
    CASE p.k = "heap" ->
            IF m.heap[p.id].st = "live" /\ n <= Len(m.heap[p.id].bytes)
            THEN {SubSeq(m.heap[p.id].bytes, 1, n)}
            ELSE AnyBytes(n)
      [] p.k = "ext" ->
            IF n <= Len(m.ext[p.id]) THEN {SubSeq(m.ext[p.id], 1, n)}
            ELSE AnyBytes(n)
      [] OTHER -> IF n = 0 THEN {<< >>} ELSE AnyBytes(n)

\* strlen(s): the offset of the first zero byte.
Strlen(m, p) ==
    LET bytes == IF p.k = "ext" THEN m.ext[p.id] ELSE <<0>>
    IN  (CHOOSE i \in 1..Len(bytes) :
            bytes[i] = 0 /\ \A j \in 1..(i - 1) : bytes[j] # 0) - 1

\* memcpy(p, bytes) and p[size] = 0: the block at p now holds these bytes.
Write(m, p, bytes) ==
    IF p.k = "heap"
    THEN [m EXCEPT !.heap[p.id] = [st |-> "live", bytes |-> bytes, frees |-> 0]]
    ELSE IF p.k = "ext"
    THEN [m EXCEPT !.ext[p.id] = bytes]
    ELSE m

\* free(p)
Free(m, p) ==
    IF p.k = "heap"
    THEN [m EXCEPT !.heap[p.id].st = "freed",
                   !.heap[p.id].bytes = << >>,
                   !.heap[p.id].frees = @ + 1]
    ELSE [m EXCEPT !.extFrees = @ \cup {p}]

\* The blocks malloc can return: not allocated, and no object still holds
\* their address (the model keeps a dangling pointer apart from a new block).
Reusable(m) ==
    {b \in Heap : /\ m.heap[b].st # "live"
                  /\ \A v \in Str : m.mBuffer[v] # HeapPtr(b)}

\* The block malloc returns.
NewBlock(m) == CHOOSE b \in Reusable(m) : \A c \in Reusable(m) : b <= c

\* clear() that frees the buffer but leaves the length as it was.
clearKeepsSize(m, v) ==
    LET m1 == IF m.mOwnsBuffer[v] /\ m.mBuffer[v] # kEmptyString
              THEN Free(m, m.mBuffer[v])
              ELSE m
    IN  [m1 EXCEPT !.mBuffer[v] = kEmptyString,
                   !.mOwnsBuffer[v] = FALSE]

\* clear() that resets the value without freeing the buffer it owns.
clearLeaks(m, v) ==
    [m EXCEPT !.mBuffer[v] = kEmptyString,
              !.mSize[v] = 0,
              !.mOwnsBuffer[v] = FALSE]

\* hidl_string::clear()
clear(m, v) ==
    LET m1 == IF m.mOwnsBuffer[v] /\ m.mBuffer[v] # kEmptyString
              THEN Free(m, m.mBuffer[v])
              ELSE m
    IN  [m1 EXCEPT !.mBuffer[v] = kEmptyString,
                   !.mSize[v] = 0,
                   !.mOwnsBuffer[v] = FALSE]

\* copyFrom(data, size) without the size check: the length is stored as its
\* low 32 bits.
copyFromTruncates(m, v, data, size) ==
    IF Reusable(m) = {}
    THEN {}
    ELSE {[m EXCEPT !.fatal = TRUE]} \cup
         {[Write(m, HeapPtr(NewBlock(m)), bs \o <<0>>)
              EXCEPT !.mBuffer[v] = HeapPtr(NewBlock(m)),
                     !.mSize[v] = U32(size),
                     !.mOwnsBuffer[v] = TRUE] : bs \in Read(m, data, size.lo)}

\* The bytes strncpy would copy: those before the first zero byte, and zero
\* bytes from there on.
UpToZero(bs) ==
    [i \in 1..Len(bs) |-> IF \E j \in 1..i : bs[j] = 0 THEN 0 ELSE bs[i]]

\* copyFrom(data, size) that copies as for a C string, up to the first zero
\* byte.
copyFromStopsAtZero(m, v, data, size) ==
    IF ExceedsUint32(size)
    THEN {[m EXCEPT !.fatal = TRUE]}
    ELSE IF Reusable(m) = {}
    THEN {}
    ELSE {[m EXCEPT !.fatal = TRUE]} \cup
         {[Write(m, HeapPtr(NewBlock(m)), UpToZero(bs) \o <<0>>)
              EXCEPT !.mBuffer[v] = HeapPtr(NewBlock(m)),
                     !.mSize[v] = U32(size),
                     !.mOwnsBuffer[v] = TRUE] : bs \in Read(m, data, size.lo)}

\* hidl_string::copyFrom(data, size): the states it can end in.  The object's
\* resources are assumed freed: the old mBuffer is overwritten.  A malloc
\* that returns NULL makes memcpy crash the process.
copyFrom(m, v, data, size) ==
    IF ExceedsUint32(size)
    THEN {[m EXCEPT !.fatal = TRUE]}
    ELSE IF Reusable(m) = {}
    THEN {}
    ELSE {[m EXCEPT !.fatal = TRUE]} \cup
         {[Write(m, HeapPtr(NewBlock(m)), bs \o <<0>>)
              EXCEPT !.mBuffer[v] = HeapPtr(NewBlock(m)),
                     !.mSize[v] = U32(size),
                     !.mOwnsBuffer[v] = TRUE] : bs \in Read(m, data, size.lo)}

\* moveFrom(other) that leaves other.mOwnsBuffer as it was.
moveFromKeepsOwner(m, v, w) ==
    [m EXCEPT !.mBuffer[v] = m.mBuffer[w],
              !.mSize[v] = m.mSize[w],
              !.mOwnsBuffer[v] = m.mOwnsBuffer[w]]

\* hidl_string::moveFrom(other)
moveFrom(m, v, w) ==
    [m EXCEPT !.mBuffer[v] = m.mBuffer[w],
              !.mSize[v] = m.mSize[w],
              !.mOwnsBuffer = [m.mOwnsBuffer EXCEPT ![v] = m.mOwnsBuffer[w],
                                                    ![w] = FALSE]]

\* hidl_string::hidl_string(), also the delegate of every other constructor.
construct(m, v) ==
    [m EXCEPT !.alive[v] = TRUE,
              !.mBuffer[v] = kEmptyString,
              !.mSize[v] = 0,
              !.mOwnsBuffer[v] = FALSE]

\* setToExternal(data, size) that marks the adopted buffer as owned.
setToExternalOwns(m, v, data, size) ==
    IF ExceedsUint32(size)
    THEN [m EXCEPT !.fatal = TRUE]
    ELSE [clear(m, v) EXCEPT !.mBuffer[v] = data,
                             !.mSize[v] = U32(size),
                             !.mOwnsBuffer[v] = TRUE]

\* hidl_string::setToExternal(data, size), on a snapshot.
setToExternal(m, v, data, size) ==
    IF ExceedsUint32(size)
    THEN [m EXCEPT !.fatal = TRUE]
    ELSE [clear(m, v) EXCEPT !.mBuffer[v] = data,
                             !.mSize[v] = U32(size),
                             !.mOwnsBuffer[v] = FALSE]

\* ------------------------------------------------- hidl_string operations
StringCtor(v) ==
    /\ sOp' = Op("ctor", v, v)
    /\ ~fatal /\ ~sAlive[v]
    /\ Commit(construct(Cur, v))

StringDtor(v) ==
    /\ sOp' = Op("dtor", v, v)
    /\ ~fatal /\ sAlive[v]
    /\ Commit([clear(Cur, v) EXCEPT !.alive[v] = FALSE])

StringCtorCStr(v, s) ==
    /\ sOp' = Op("ctorCStr", v, v)
    /\ ~fatal /\ ~sAlive[v]
    /\ IF s = nullptr
       THEN Commit(construct(Cur, v))
       ELSE \E m \in copyFrom(construct(Cur, v), v, s, SizeT(Strlen(Cur, s))) : Commit(m)

StringCtorData(v, d) ==
    /\ sOp' = Op("ctorData", v, v)
    /\ ~fatal /\ ~sAlive[v]
    /\ \E m \in copyFrom(construct(Cur, v), v, d.data, d.size) : Commit(m)

StringCtorCopy(v, w) ==
    /\ sOp' = Op("ctorCopy", v, w)
    /\ ~fatal /\ ~sAlive[v] /\ sAlive[w]
    /\ \E m \in copyFrom(construct(Cur, v), v, mBuffer[w], SizeT(mSize[w])) : Commit(m)

StringCtorStd(v, d) ==
    /\ sOp' = Op("ctorStd", v, v)
    /\ ~fatal /\ ~sAlive[v]
    /\ \E m \in copyFrom(construct(Cur, v), v, d.data, d.size) : Commit(m)

StringCtorMove(v, w) ==
    /\ sOp' = Op("ctorMove", v, w)
    /\ ~fatal /\ ~sAlive[v] /\ sAlive[w]
    /\ Commit(moveFrom(construct(Cur, v), v, w))

StringMoveAssign(v, w) ==
    /\ sOp' = Op("moveAssign", v, w)
    /\ ~fatal /\ sAlive[v] /\ sAlive[w]
    /\ IF v # w
       THEN Commit(moveFrom(clear(Cur, v), v, w))
       ELSE Commit(Cur)

StringCopyAssign(v, w) ==
    /\ sOp' = Op("copyAssign", v, w)
    /\ ~fatal /\ sAlive[v] /\ sAlive[w]
    /\ IF v # w
       THEN \E m \in copyFrom(clear(Cur, v), v, mBuffer[w], SizeT(mSize[w])) : Commit(m)
       ELSE Commit(Cur)

StringAssignCStr(v, s) ==
    /\ sOp' = Op("assignCStr", v, v)
    /\ ~fatal /\ sAlive[v]
    /\ IF s = nullptr
       THEN Commit(clear(Cur, v))
       ELSE \E m \in copyFrom(clear(Cur, v), v, s, SizeT(Strlen(Cur, s))) : Commit(m)

StringAssignStd(v, d) ==
    /\ sOp' = Op("assignStd", v, v)
    /\ ~fatal /\ sAlive[v]
    /\ \E m \in copyFrom(clear(Cur, v), v, d.data, d.size) : Commit(m)

StringClear(v) ==
    /\ sOp' = Op("clear", v, v)
    /\ ~fatal /\ sAlive[v]
    /\ Commit(clear(Cur, v))

StringSetToExternal(v, d) ==
    /\ sOp' = Op("setToExternal", v, v)
    /\ ~fatal /\ sAlive[v]
    /\ Commit(setToExternal(Cur, v, d.data, d.size))

StringNext ==
    \/ \E v \in Str : StringCtor(v)
    \/ \E v \in Str : StringDtor(v)
    \/ \E v \in Str, s \in CStrArgs : StringCtorCStr(v, s)
    \/ \E v \in Str, d \in DataArgs : StringCtorData(v, d)
    \/ \E v \in Str, w \in Str : StringCtorCopy(v, w)
    \/ \E v \in Str, d \in DataArgs : StringCtorStd(v, d)
    \/ \E v \in Str, w \in Str : StringCtorMove(v, w)
    \/ \E v \in Str, w \in Str : StringMoveAssign(v, w)
    \/ \E v \in Str, w \in Str : StringCopyAssign(v, w)
    \/ \E v \in Str, s \in CStrArgs : StringAssignCStr(v, s)
    \/ \E v \in Str, d \in DataArgs : StringAssignStd(v, d)
    \/ \E v \in Str : StringClear(v)
    \/ \E v \in Str, d \in DataArgs : StringSetToExternal(v, d)

StringInit ==
    /\ sAlive = [v \in Str |-> FALSE]
    /\ mBuffer = [v \in Str |-> kEmptyString]
    /\ mSize = [v \in Str |-> 0]
    /\ mOwnsBuffer = [v \in Str |-> FALSE]
    /\ heap = [b \in Heap |-> [st |-> "unalloc", bytes |-> << >>, frees |-> 0]]
    /\ extFrees = {}
    /\ extMem = ExtMem
    /\ sOp = Op("none", 1, 1)

\* ------------------------------------------------------------ hidl_handle
Hnd == 1..NHnd
Rec == 1..(NExtRec + MaxClone)
ExtRec == 1..NExtRec
CloneRec == (NExtRec + 1)..(NExtRec + MaxClone)
RecPtr(r) == [k |-> "rec", id |-> r]

HCur ==
    [alive |-> hAlive, mHandle |-> mHandle, mOwnsHandle |-> mOwnsHandle,
     rec |-> rec, given |-> given, hcalls |-> << >>, fatal |-> fatal]

\* A deleted clone whose address no object holds any more cannot be told
\* from one never made (a record closed or deleted twice stays).
ForgetRec(m) ==
    [r \in DOMAIN m.rec |->
        IF /\ r \in CloneRec
           /\ m.rec[r].st = "deleted"
           /\ m.rec[r].closes <= 1 /\ m.rec[r].deletes <= 1
           /\ \A h \in DOMAIN m.mHandle : m.mHandle[h] # RecPtr(r)
        THEN [st |-> "unalloc", closes |-> 0, deletes |-> 0]
        ELSE m.rec[r]]

HCommit(m) ==
    /\ hAlive' = m.alive
    /\ mHandle' = m.mHandle
    /\ mOwnsHandle' = m.mOwnsHandle
    /\ rec' = ForgetRec(m)
    /\ given' = m.given
    /\ hcalls' = m.hcalls
    /\ fatal' = m.fatal
    /\ UNCHANGED <<strVars, manifestVars, trVars>>

\* native_handle_close(handle)
native_handle_close(m, p) ==
    [m EXCEPT !.rec[p.id].closes = @ + 1,
              !.hcalls = Append(@, [op |-> "close", h |-> p])]

\* native_handle_delete(handle)
native_handle_delete(m, p) ==
    [m EXCEPT !.rec[p.id].st = "deleted",
              !.rec[p.id].deletes = @ + 1,
              !.hcalls = Append(@, [op |-> "delete", h |-> p])]

\* The records native_handle_clone can return: not in use, and no object
\* still holds their address.
FreeRecs(m) ==
    {r \in CloneRec : /\ m.rec[r].st = "unalloc"
                      /\ \A h \in Hnd : m.mHandle[h] # RecPtr(r)}

NewRec(m) == CHOOSE r \in FreeRecs(m) : \A q \in FreeRecs(m) : r <= q

\* freeHandle() that deletes the record before closing it.
freeHandleDeletesFirst(m, h) ==
    IF m.mOwnsHandle[h] /\ m.mHandle[h] # nullptr
    THEN [native_handle_close(native_handle_delete(m, m.mHandle[h]), m.mHandle[h])
             EXCEPT !.mHandle[h] = nullptr]
    ELSE m

\* hidl_handle::freeHandle()
freeHandle(m, h) ==
    IF m.mOwnsHandle[h] /\ m.mHandle[h] # nullptr
    THEN [native_handle_delete(native_handle_close(m, m.mHandle[h]), m.mHandle[h])
             EXCEPT !.mHandle[h] = nullptr]
    ELSE m

\* operator=(const hidl_handle &) that shares the source's record instead of
\* cloning it.
copyAssignShares(m, h, o) ==
    IF h = o
    THEN {m}
    ELSE LET m1 == freeHandle(m, h) IN
         {[m1 EXCEPT !.mHandle[h] = m1.mHandle[o],
                     !.mOwnsHandle[h] = (m1.mHandle[o] # nullptr)]}

\* operator=(const hidl_handle &) without the check for self-assignment.
copyAssignNoSelfCheck(m, h, o) ==
    LET m1 == freeHandle(m, h) IN
    IF m1.mHandle[o] # nullptr
    THEN IF FreeRecs(m1) = {}
         THEN {}
         ELSE {[m1 EXCEPT !.hcalls = Append(@, [op |-> "clone", h |-> m1.mHandle[o]]),
                          !.mHandle[h] = nullptr,
                          !.fatal = TRUE]} \cup
              {[m1 EXCEPT !.hcalls = Append(@, [op |-> "clone", h |-> m1.mHandle[o]]),
                          !.rec[NewRec(m1)] =
                              [st |-> "open", closes |-> 0, deletes |-> 0],
                          !.mHandle[h] = RecPtr(NewRec(m1)),
                          !.mOwnsHandle[h] = TRUE]}
    ELSE {[m1 EXCEPT !.mHandle[h] = nullptr,
                     !.mOwnsHandle[h] = FALSE]}

\* hidl_handle::operator=(const hidl_handle &other): the states it can end
\* in.  native_handle_clone returns a new record or NULL, which is fatal; on
\* a record already deleted it reads freed memory, with the same outcomes.
copyAssign(m, h, o) ==
    IF h = o
    THEN {m}
    ELSE LET m1 == freeHandle(m, h) IN
         IF m1.mHandle[o] # nullptr
         THEN IF FreeRecs(m1) = {}
              THEN {}
              ELSE {[m1 EXCEPT !.hcalls = Append(@, [op |-> "clone", h |-> m1.mHandle[o]]),
                               !.mHandle[h] = nullptr,
                               !.fatal = TRUE]} \cup
                   {[m1 EXCEPT !.hcalls = Append(@, [op |-> "clone", h |-> m1.mHandle[o]]),
                               !.rec[NewRec(m1)] =
                                   [st |-> "open", closes |-> 0, deletes |-> 0],
                               !.mHandle[h] = RecPtr(NewRec(m1)),
                               !.mOwnsHandle[h] = TRUE]}
         ELSE {[m1 EXCEPT !.mHandle[h] = nullptr,
                          !.mOwnsHandle[h] = FALSE]}

\* operator=(const native_handle_t *) that takes ownership of the record.
assignRawOwns(m, h, p) ==
    [freeHandle(m, h) EXCEPT !.mHandle[h] = p,
                             !.mOwnsHandle[h] = TRUE]

\* operator=(const native_handle_t *) that leaves the ownership flag as it
\* was.
assignRawKeepsFlag(m, h, p) ==
    [freeHandle(m, h) EXCEPT !.mHandle[h] = p]

\* hidl_handle::operator=(const native_handle_t *native_handle)
assignRaw(m, h, p) ==
    [freeHandle(m, h) EXCEPT !.mHandle[h] = p,
                             !.mOwnsHandle[h] = FALSE]

\* operator=(hidl_handle &&) that leaves the source as it was.
moveAssignKeepsSource(m, h, o) ==
    IF h # o
    THEN LET m1 == freeHandle(m, h) IN
         [m1 EXCEPT !.mHandle[h] = m1.mHandle[o],
                    !.mOwnsHandle[h] = m1.mOwnsHandle[o]]
    ELSE m

\* hidl_handle::operator=(hidl_handle &&other)
moveAssign(m, h, o) ==
    IF h # o
    THEN LET m1 == freeHandle(m, h) IN
         [m1 EXCEPT !.mHandle = [m1.mHandle EXCEPT ![h] = m1.mHandle[o],
                                                   ![o] = nullptr],
                    !.mOwnsHandle = [m1.mOwnsHandle EXCEPT ![h] = m1.mOwnsHandle[o],
                                                           ![o] = FALSE]]
    ELSE m

\* hidl_handle::setTo(handle, shouldOwn)
setTo(m, h, p, shouldOwn) ==
    [freeHandle(m, h) EXCEPT !.mHandle[h] = p,
                             !.mOwnsHandle[h] = shouldOwn,
                             !.given = IF shouldOwn /\ p # nullptr
                                       THEN @ \cup {p.id} ELSE @]

\* The storage of an object whose constructor starts: mOwnsHandle is set
\* before anything reads it, and mHandle is not read while it is false.
begin(m, h) == [m EXCEPT !.alive[h] = TRUE, !.mOwnsHandle[h] = FALSE]

\* The raw pointers a caller can pass: to its own records, null, or what an
\* accessor (getNativeHandle, operator->) of a live object returned.
RawArgs ==
    {RecPtr(r) : r \in ExtRec} \cup {nullptr} \cup {mHandle[h] : h \in {g \in Hnd : hAlive[g]}}

\* What a caller may hand over with shouldOwn = true: nothing, or a record of
\* its own that it has not handed over before.
OwnedArgs == {RecPtr(r) : r \in ExtRec \ given} \cup {nullptr}

HandleCtor(h) ==
    /\ hOp' = Op("ctor", h, h)
    /\ ~fatal /\ ~hAlive[h]
    /\ HCommit([HCur EXCEPT !.alive[h] = TRUE,
                            !.mHandle[h] = nullptr,
                            !.mOwnsHandle[h] = FALSE])

HandleDtor(h) ==
    /\ hOp' = Op("dtor", h, h)
    /\ ~fatal /\ hAlive[h]
    /\ HCommit([freeHandle(HCur, h) EXCEPT !.alive[h] = FALSE,
                                           !.mHandle[h] = nullptr,
                                           !.mOwnsHandle[h] = FALSE])

HandleCtorRaw(h, p) ==
    /\ hOp' = Op("ctorRaw", h, h)
    /\ ~fatal /\ ~hAlive[h]
    /\ HCommit([HCur EXCEPT !.alive[h] = TRUE,
                            !.mHandle[h] = p,
                            !.mOwnsHandle[h] = FALSE])

HandleCtorCopy(h, o) ==
    /\ hOp' = Op("ctorCopy", h, o)
    /\ ~fatal /\ ~hAlive[h] /\ hAlive[o]
    /\ \E m \in copyAssign(begin(HCur, h), h, o) : HCommit(m)

HandleCtorMove(h, o) ==
    /\ hOp' = Op("ctorMove", h, o)
    /\ ~fatal /\ ~hAlive[h] /\ hAlive[o]
    /\ HCommit(moveAssign(begin(HCur, h), h, o))

HandleCopyAssign(h, o) ==
    /\ hOp' = Op("copyAssign", h, o)
    /\ ~fatal /\ hAlive[h] /\ hAlive[o]
    /\ \E m \in copyAssign(HCur, h, o) : HCommit(m)

HandleAssignRaw(h, p) ==
    /\ hOp' = Op("assignRaw", h, h)
    /\ ~fatal /\ hAlive[h]
    /\ HCommit(assignRaw(HCur, h, p))

HandleMoveAssign(h, o) ==
    /\ hOp' = Op("moveAssign", h, o)
    /\ ~fatal /\ hAlive[h] /\ hAlive[o]
    /\ HCommit(moveAssign(HCur, h, o))

HandleSetTo(h, p, shouldOwn) ==
    /\ hOp' = Op("setTo", h, h)
    /\ ~fatal /\ hAlive[h]
    /\ HCommit(setTo(HCur, h, p, shouldOwn))

HandleNext ==
    \/ \E h \in Hnd : HandleCtor(h)
    \/ \E h \in Hnd : HandleDtor(h)
    \/ \E h \in Hnd, p \in RawArgs : HandleCtorRaw(h, p)
    \/ \E h \in Hnd, o \in Hnd : HandleCtorCopy(h, o)
    \/ \E h \in Hnd, o \in Hnd : HandleCtorMove(h, o)
    \/ \E h \in Hnd, o \in Hnd : HandleCopyAssign(h, o)
    \/ \E h \in Hnd, p \in RawArgs : HandleAssignRaw(h, p)
    \/ \E h \in Hnd, o \in Hnd : HandleMoveAssign(h, o)
    \/ \E h \in Hnd, p \in RawArgs : HandleSetTo(h, p, FALSE)
    \/ \E h \in Hnd, p \in OwnedArgs : HandleSetTo(h, p, TRUE)

HandleInit ==
    /\ hAlive = [h \in Hnd |-> FALSE]
    /\ mHandle = [h \in Hnd |-> nullptr]
    /\ mOwnsHandle = [h \in Hnd |-> FALSE]
    /\ rec = [r \in Rec |->
                IF r \in ExtRec
                THEN [st |-> "open", closes |-> 0, deletes |-> 0]
                ELSE [st |-> "unalloc", closes |-> 0, deletes |-> 0]]
    /\ given = {}
    /\ hcalls = << >>
    /\ hOp = Op("none", 1, 1)

\* ----------------------------------------------------------- getTransport
Transport == {"EMPTY", "HWBINDER", "PASSTHROUGH"}

\* Package names, as their dot-separated components.
Packages ==
    { <<"android", "hidl", "manager">>, <<"android", "hidl">>,
      <<"android", "hardware", "nfc">>, <<"vendor", "acme", "foo">> }
Versions == { <<1, 0>>, <<2, 1>> }

\* What FQName(name) gives for the strings a caller can pass: names that do
\* not parse, names without a version, and versioned names.
Names ==
    {[valid |-> FALSE, hasVersion |-> b, package |-> << >>, version |-> <<0, 0>>] :
        b \in BOOLEAN}
    \cup {[valid |-> TRUE, hasVersion |-> FALSE, package |-> p, version |-> <<0, 0>>] :
        p \in {<<"android", "hidl", "manager">>, <<"vendor", "acme", "foo">>}}
    \cup {[valid |-> TRUE, hasVersion |-> TRUE, package |-> p, version |-> v] :
        p \in Packages, v \in Versions}

\* The (package, version) pairs a manifest of the model can declare.
HalKeys ==
    { << <<"android", "hidl", "manager">>, <<1, 0>> >>,
      << <<"vendor", "acme", "foo">>, <<2, 1>> >> }

\* A manifest handle: null, or a manifest with its declared transports.
NullManifest(which) ==
    [which |-> which, present |-> FALSE, hals |-> [key \in HalKeys |-> "EMPTY"]]
Manifests(which) ==
    {NullManifest(which)} \cup
    {[which |-> which, present |-> TRUE, hals |-> f] : f \in [HalKeys -> Transport]}

\* FQName::inPackage(package): a prefix match on the components.
inPackage(fqName, package) ==
    /\ Len(package) <= Len(fqName.package)
    /\ \A i \in 1..Len(package) : package[i] = fqName.package[i]

\* HalManifest::getTransport(package, version)
HalManifest_getTransport(vm, package, version) ==
    IF <<package, version>> \in HalKeys
    THEN vm.hals[<<package, version>>]
    ELSE "EMPTY"

LogRecord(sev, event, manifestName) ==
    [sev |-> sev, event |-> event, manifest |-> manifestName]

\* getTransportFromManifest that does not name the manifest in its warning
\* about a null manifest.
getTransportFromManifestNoLabel(fqName, manifestName, vm) ==
    IF ~vm.present
    THEN [ret |-> "EMPTY",
          log |-> <<LogRecord("WARNING", "no manifest defined", "")>>,
          calls |-> << >>]
    ELSE LET tr == HalManifest_getTransport(vm, fqName.package, fqName.version)
         IN  [ret |-> tr,
              log |-> IF tr = "EMPTY"
                      THEN <<LogRecord("WARNING", "cannot find entry", manifestName)>>
                      ELSE <<LogRecord("DEBUG", "declares transport", manifestName)>>,
              calls |-> <<[fn |-> "HalManifest::getTransport", on |-> vm.which,
                           package |-> fqName.package, version |-> fqName.version]>>]

\* getTransportFromManifest that reports a declared transport at warning
\* severity, as it does a missing entry.
getTransportFromManifestWarnsAlways(fqName, manifestName, vm) ==
    IF ~vm.present
    THEN [ret |-> "EMPTY",
          log |-> <<LogRecord("WARNING", "no manifest defined", manifestName)>>,
          calls |-> << >>]
    ELSE LET tr == HalManifest_getTransport(vm, fqName.package, fqName.version)
         IN  [ret |-> tr,
              log |-> IF tr = "EMPTY"
                      THEN <<LogRecord("WARNING", "cannot find entry", manifestName)>>
                      ELSE <<LogRecord("WARNING", "declares transport", manifestName)>>,
              calls |-> <<[fn |-> "HalManifest::getTransport", on |-> vm.which,
                           package |-> fqName.package, version |-> fqName.version]>>]

\* getTransportFromManifest(fqName, manifestName, vm)
getTransportFromManifest(fqName, manifestName, vm) ==
    IF ~vm.present
    THEN [ret |-> "EMPTY",
          log |-> <<LogRecord("WARNING", "no manifest defined", manifestName)>>,
          calls |-> << >>]
    ELSE LET tr == HalManifest_getTransport(vm, fqName.package, fqName.version)
         IN  [ret |-> tr,
              log |-> IF tr = "EMPTY"
                      THEN <<LogRecord("WARNING", "cannot find entry", manifestName)>>
                      ELSE <<LogRecord("DEBUG", "declares transport", manifestName)>>,
              calls |-> <<[fn |-> "HalManifest::getTransport", on |-> vm.which,
                           package |-> fqName.package, version |-> fqName.version]>>]

Call(fn) == [fn |-> fn, on |-> "", package |-> << >>, version |-> <<0, 0>>]

\* What the rest of getTransport adds to the calls already made.
After(calls, r) == [r EXCEPT !.calls = calls \o @]

\* getTransport(name) that looks at the version before the validity.
getTransportVersionFirst(fqName, framework, device) ==
    IF ~fqName.hasVersion
    THEN [ret |-> "EMPTY",
          log |-> <<LogRecord("ERROR", "does not specify a version", "")>>,
          calls |-> <<Call("hasVersion")>>]
    ELSE IF ~fqName.valid
    THEN [ret |-> "EMPTY",
          log |-> <<LogRecord("ERROR", "not a valid fully-qualified name", "")>>,
          calls |-> <<Call("hasVersion"), Call("isValid")>>]
    ELSE IF inPackage(fqName, <<"android", "hidl">>)
    THEN After(<<Call("hasVersion"), Call("isValid"), Call("inPackage"),
                 Call("GetFrameworkHalManifest")>>,
               getTransportFromManifest(fqName, "framework", framework))
    ELSE After(<<Call("hasVersion"), Call("isValid"), Call("inPackage"),
                 Call("GetDeviceHalManifest")>>,
               getTransportFromManifest(fqName, "device", device))

\* getTransport(name) that falls back to the device manifest when the
\* framework manifest gives no transport.
getTransportFallsBack(fqName, framework, device) ==
    IF ~fqName.valid
    THEN [ret |-> "EMPTY",
          log |-> <<LogRecord("ERROR", "not a valid fully-qualified name", "")>>,
          calls |-> <<Call("isValid")>>]
    ELSE IF ~fqName.hasVersion
    THEN [ret |-> "EMPTY",
          log |-> <<LogRecord("ERROR", "does not specify a version", "")>>,
          calls |-> <<Call("isValid"), Call("hasVersion")>>]
    ELSE LET pre == <<Call("isValid"), Call("hasVersion"), Call("inPackage")>>
             fw == getTransportFromManifest(fqName, "framework", framework)
             dev == getTransportFromManifest(fqName, "device", device)
         IN  IF ~inPackage(fqName, <<"android", "hidl">>)
             THEN After(pre \o <<Call("GetDeviceHalManifest")>>, dev)
             ELSE IF fw.ret # "EMPTY"
             THEN After(pre \o <<Call("GetFrameworkHalManifest")>>, fw)
             ELSE [ret |-> dev.ret,
                   log |-> fw.log \o dev.log,
                   calls |-> pre \o <<Call("GetFrameworkHalManifest")>> \o fw.calls
                             \o <<Call("GetDeviceHalManifest")>> \o dev.calls]

\* getTransport(name) that keeps a note of the last name it found no entry
\* for and answers a repeated call for that name without asking the manifest.
getTransportNotesMisses(fqName, framework, device) ==
    IF tCalls # << >> /\ tName = fqName /\ tLog # << >>
          /\ tLog[1].event = "cannot find entry"
    THEN [ret |-> "EMPTY",
          log |-> <<LogRecord("WARNING", "no entry noted", tLog[1].manifest)>>,
          calls |-> <<Call("isValid"), Call("hasVersion")>>]
    ELSE IF ~fqName.valid
    THEN [ret |-> "EMPTY",
          log |-> <<LogRecord("ERROR", "not a valid fully-qualified name", "")>>,
          calls |-> <<Call("isValid")>>]
    ELSE IF ~fqName.hasVersion
    THEN [ret |-> "EMPTY",
          log |-> <<LogRecord("ERROR", "does not specify a version", "")>>,
          calls |-> <<Call("isValid"), Call("hasVersion")>>]
    ELSE IF inPackage(fqName, <<"android", "hidl">>)
    THEN After(<<Call("isValid"), Call("hasVersion"), Call("inPackage"),
                 Call("GetFrameworkHalManifest")>>,
               getTransportFromManifest(fqName, "framework", framework))
    ELSE After(<<Call("isValid"), Call("hasVersion"), Call("inPackage"),
                 Call("GetDeviceHalManifest")>>,
               getTransportFromManifest(fqName, "device", device))

\* getTransport(name), for the manifests the accessors return at the call.
getTransport(fqName, framework, device) ==
    IF ~fqName.valid
    THEN [ret |-> "EMPTY",
          log |-> <<LogRecord("ERROR", "not a valid fully-qualified name", "")>>,
          calls |-> <<Call("isValid")>>]
    ELSE IF ~fqName.hasVersion
    THEN [ret |-> "EMPTY",
          log |-> <<LogRecord("ERROR", "does not specify a version", "")>>,
          calls |-> <<Call("isValid"), Call("hasVersion")>>]
    ELSE IF inPackage(fqName, <<"android", "hidl">>)
    THEN After(<<Call("isValid"), Call("hasVersion"), Call("inPackage"),
                 Call("GetFrameworkHalManifest")>>,
               getTransportFromManifest(fqName, "framework", framework))
    ELSE After(<<Call("isValid"), Call("hasVersion"), Call("inPackage"),
                 Call("GetDeviceHalManifest")>>,
               getTransportFromManifest(fqName, "device", device))

GetTransport(name) ==
    /\ ~fatal
    /\ LET r == getTransport(name, frameworkManifest, deviceManifest)
       IN  /\ tName' = name
           /\ tRet' = r.ret
           /\ tLog' = r.log
           /\ tCalls' = r.calls
    /\ UNCHANGED <<strVars, hndVars, manifestVars, fatal>>

\* The vintf subsystem, which owns the manifests, loads or drops one.
SetFrameworkManifest(vm) ==
    /\ ~fatal
    /\ frameworkManifest' = vm
    /\ UNCHANGED <<strVars, hndVars, deviceManifest, trVars, fatal>>

SetDeviceManifest(vm) ==
    /\ ~fatal
    /\ deviceManifest' = vm
    /\ UNCHANGED <<strVars, hndVars, frameworkManifest, trVars, fatal>>

TransportNext ==
    \/ \E name \in Names : GetTransport(name)
    \/ \E vm \in Manifests("framework") : SetFrameworkManifest(vm)
    \/ \E vm \in Manifests("device") : SetDeviceManifest(vm)

TransportInit ==
    /\ frameworkManifest = NullManifest("framework")
    /\ deviceManifest = NullManifest("device")
    /\ tName = [valid |-> FALSE, hasVersion |-> FALSE, package |-> << >>,
                version |-> <<0, 0>>]
    /\ tRet = "EMPTY"
    /\ tLog = << >>
    /\ tCalls = << >>

Init == StringInit /\ HandleInit /\ TransportInit /\ fatal = FALSE

SpecString == Init /\ [][StringNext]_vars

SpecHandle == Init /\ [][HandleNext]_vars

SpecTransport == Init /\ [][TransportNext]_vars


\* A client that works with one of the two value types: the types share no
\* state, so a run exercises hidl_string or hidl_handle, not both.
NoStringUsed == sOp.name = "none"
NoHandleUsed == hOp.name = "none"

ValuesNext ==
    \/ NoHandleUsed /\ StringNext
    \/ NoStringUsed /\ HandleNext

SpecValues == Init /\ [][ValuesNext]_vars

\* A client that uses the value API of hidl_string alone: every operation
\* but setToExternal.
StringApiNext ==
    \/ \E v \in Str : StringCtor(v)
    \/ \E v \in Str : StringDtor(v)
    \/ \E v \in Str, s \in CStrArgs : StringCtorCStr(v, s)
    \/ \E v \in Str, d \in DataArgs : StringCtorData(v, d)
    \/ \E v \in Str, w \in Str : StringCtorCopy(v, w)
    \/ \E v \in Str, d \in DataArgs : StringCtorStd(v, d)
    \/ \E v \in Str, w \in Str : StringCtorMove(v, w)
    \/ \E v \in Str, w \in Str : StringMoveAssign(v, w)
    \/ \E v \in Str, w \in Str : StringCopyAssign(v, w)
    \/ \E v \in Str, s \in CStrArgs : StringAssignCStr(v, s)
    \/ \E v \in Str, d \in DataArgs : StringAssignStd(v, d)
    \/ \E v \in Str : StringClear(v)

SpecStringApi == Init /\ [][StringApiNext]_vars

Next == StringNext \/ HandleNext \/ TransportNext

Spec == Init /\ [][Next]_vars

\* ================================================================ claims
\* What a read of the value's bytes can give (c_str() and size()).
Bytes(m, v) == Read(m, m.mBuffer[v], m.mSize[v])
Next_ == [alive |-> sAlive', mBuffer |-> mBuffer', mSize |-> mSize',
          mOwnsBuffer |-> mOwnsBuffer', heap |-> heap', extFrees |-> extFrees',
          ext |-> extMem', fatal |-> fatal']

IsDefault(buf, size, owns) == buf = kEmptyString /\ size = 0 /\ ~owns

\* C1: after move construction or move assignment of a hidl_string from x
\* into a distinct y, x is in the default state (size 0, the empty sentinel,
\* not owning) and y holds the pointer, length and ownership flag x had.
C1_MoveResetsSource ==
    [][\A x \in Str, y \in Str :
          (x # y /\ (StringCtorMove(y, x) \/ StringMoveAssign(y, x))) =>
              /\ IsDefault(mBuffer'[x], mSize'[x], mOwnsBuffer'[x])
              /\ mBuffer'[y] = mBuffer[x]
              /\ mSize'[y] = mSize[x]
              /\ mOwnsBuffer'[y] = mOwnsBuffer[x]]_vars

\* C2 as stated: whenever a live value's length is zero, its buffer is the
\* empty sentinel and it does not own it.
C2_ZeroLengthIsSentinel ==
    \A v \in Str : (sAlive[v] /\ mSize[v] = 0) =>
        (mBuffer[v] = kEmptyString /\ ~mOwnsBuffer[v])

\* A copy of zero bytes: an owned block of the value's own (malloc may have
\* returned the address the value just freed), holding the terminating zero
\* alone.
OwnsFreshEmpty(v) ==
    /\ mSize'[v] = 0 /\ mOwnsBuffer'[v]
    /\ mBuffer'[v].k = "heap"
    /\ \A w \in Str \ {v} : mBuffer'[w] # mBuffer'[v]
    /\ heap'[mBuffer'[v].id] = [st |-> "live", bytes |-> <<0>>, frees |-> 0]

\* C2 (amended): default construction, construction or assignment from a
\* null pointer and clear() leave length zero, the empty sentinel and no
\* ownership; construction or assignment from a zero-length input and copying
\* an empty value leave length zero with an owned, newly allocated one-byte
\* buffer; setToExternal(p, 0) leaves length zero with the borrowed pointer p.
C2_ZeroLengthShapes ==
    [][\A v \in Str :
          /\ (StringCtor(v) \/ StringCtorCStr(v, nullptr)
                  \/ StringAssignCStr(v, nullptr) \/ StringClear(v)) =>
                 IsDefault(mBuffer'[v], mSize'[v], mOwnsBuffer'[v])
          /\ \A s \in ExtPtrs :
                 (Strlen(Cur, s) = 0 /\ ~fatal'
                     /\ (StringCtorCStr(v, s) \/ StringAssignCStr(v, s))) =>
                     OwnsFreshEmpty(v)
          /\ \A d \in DataArgs :
                 (d.size = SizeT(0) /\ ~fatal'
                     /\ (StringCtorData(v, d) \/ StringCtorStd(v, d)
                             \/ StringAssignStd(v, d))) =>
                     OwnsFreshEmpty(v)
          /\ \A w \in Str :
                 (w # v /\ mSize[w] = 0 /\ ~fatal'
                     /\ (StringCtorCopy(v, w) \/ StringCopyAssign(v, w))) =>
                     OwnsFreshEmpty(v)
          /\ \A d \in DataArgs :
                 (d.size = SizeT(0) /\ StringSetToExternal(v, d)) =>
                     (mBuffer'[v] = d.data /\ mSize'[v] = 0 /\ ~mOwnsBuffer'[v])]_vars

\* C2 witness: a live value of length zero that owns a heap buffer, next to
\* one that was cleared.
C2_Witness ==
    \E v \in Str, w \in Str :
        /\ sAlive[v] /\ mSize[v] = 0 /\ mOwnsBuffer[v] /\ mBuffer[v].k = "heap"
        /\ sAlive[w] /\ sOp = Op("clear", w, w) /\ mBuffer[w] = kEmptyString

\* C3: no heap buffer and no handle record is owned by two live values at
\* once, and no buffer is freed and no record closed or deleted more than
\* once (the caller hands a record over by setTo(record, true) at most once).
C3_SingleOwner ==
    /\ \A v \in Str, w \in Str :
          (v # w /\ sAlive[v] /\ sAlive[w] /\ mOwnsBuffer[v] /\ mOwnsBuffer[w]) =>
              mBuffer[v] # mBuffer[w]
    /\ \A b \in Heap : heap[b].frees <= 1
    /\ extFrees = {}
    /\ \A h \in Hnd, g \in Hnd :
          (h # g /\ hAlive[h] /\ hAlive[g] /\ mOwnsHandle[h] /\ mOwnsHandle[g]
              /\ mHandle[h] # nullptr) =>
              mHandle[h] # mHandle[g]
    /\ \A r \in Rec : rec[r].closes <= 1 /\ rec[r].deletes <= 1

\* C3 witness: a buffer that two live strings point to after a move
\* assignment, owned by the destination alone.
C3_Witness ==
    \E v \in Str, w \in Str :
        /\ v # w /\ sAlive[v] /\ sAlive[w]
        /\ sOp = Op("moveAssign", v, w)
        /\ mBuffer[v] = mBuffer[w] /\ mBuffer[v].k = "heap"
        /\ mOwnsBuffer[v] /\ ~mOwnsBuffer[w]

\* The native_handle_* calls that release record p: close, then delete.
Release(p) == <<[op |-> "close", h |-> p], [op |-> "delete", h |-> p]>>

\* C4: after move construction or move assignment of a hidl_handle from x
\* into a distinct y, x is null and non-owning and y holds x's record pointer
\* and ownership flag; destroying an owner of a record closes and deletes
\* that record once, and destroying a null non-owning value (the moved-from
\* x) closes and deletes nothing.
C4_HandleMove ==
    [][/\ \A x \in Hnd, y \in Hnd :
            (x # y /\ (HandleCtorMove(y, x) \/ HandleMoveAssign(y, x))) =>
                /\ mHandle'[x] = nullptr /\ ~mOwnsHandle'[x]
                /\ mHandle'[y] = mHandle[x]
                /\ mOwnsHandle'[y] = mOwnsHandle[x]
       /\ \A y \in Hnd :
            HandleDtor(y) =>
                hcalls' = IF mOwnsHandle[y] /\ mHandle[y] # nullptr
                          THEN Release(mHandle[y])
                          ELSE << >>
       /\ \A r \in Rec : rec'[r].closes <= 1 /\ rec'[r].deletes <= 1]_vars

\* C4 witness: x was moved into y, which now owns a record, and x is null.
C4_Witness ==
    \E x \in Hnd, y \in Hnd :
        /\ x # y /\ hAlive[x] /\ hAlive[y]
        /\ hOp \in {Op("ctorMove", y, x), Op("moveAssign", y, x)}
        /\ mHandle[x] = nullptr /\ ~mOwnsHandle[x]
        /\ mHandle[y] # nullptr /\ mOwnsHandle[y]

\* C5: copy construction or copy assignment of a hidl_handle from a distinct
\* x leaves x as it was and gives a null non-owning destination when x is
\* null, and otherwise a destination that owns a record just returned by
\* native_handle_clone(x's record), at another address than x's; destroying
\* a value closes and deletes no record but its own.
C5_HandleCopyClones ==
    [][/\ \A x \in Hnd, y \in Hnd :
            (x # y /\ ~fatal' /\ (HandleCtorCopy(y, x) \/ HandleCopyAssign(y, x))) =>
                /\ mHandle'[x] = mHandle[x] /\ mOwnsHandle'[x] = mOwnsHandle[x]
                /\ mOwnsHandle'[y] = (mHandle[x] # nullptr)
                /\ IF mHandle[x] = nullptr
                   THEN mHandle'[y] = nullptr
                   ELSE /\ mHandle'[y] \notin {nullptr, mHandle[x]}
                        /\ \A g \in Hnd \ {y} : mHandle'[g] # mHandle'[y]
                        /\ rec'[mHandle'[y].id] =
                               [st |-> "open", closes |-> 0, deletes |-> 0]
                        /\ hcalls'[Len(hcalls')] = [op |-> "clone", h |-> mHandle[x]]
       /\ \A y \in Hnd, i \in 1..Len(hcalls') :
            HandleDtor(y) => hcalls'[i].h = mHandle[y]]_vars

\* C5 witness: y is a copy of a non-null x and owns another record than x's.
C5_Witness ==
    \E x \in Hnd, y \in Hnd :
        /\ x # y /\ hAlive[x] /\ hAlive[y] /\ ~fatal
        /\ hOp \in {Op("ctorCopy", y, x), Op("copyAssign", y, x)}
        /\ mHandle[x] # nullptr /\ mHandle[y] # nullptr
        /\ mHandle[x] # mHandle[y] /\ mOwnsHandle[y]

\* C6: a value that owns a record holds one that native_handle_clone made or
\* that setTo(record, true) handed over, and a record of the caller's that
\* was only ever borrowed is never closed or deleted.
C6_BorrowedNeverReleased ==
    /\ \A h \in Hnd :
          (hAlive[h] /\ mOwnsHandle[h] /\ mHandle[h] # nullptr) =>
              mHandle[h].id \in CloneRec \cup given
    /\ \A r \in ExtRec \ given :
          rec[r] = [st |-> "open", closes |-> 0, deletes |-> 0]
    /\ \A i \in 1..Len(hcalls) :
          hcalls[i].op \in {"close", "delete"} => hcalls[i].h.id \in CloneRec \cup given

\* C6 witness: a record of the caller's that was borrowed has been moved
\* from one value to another and is still borrowed and open, in a run where
\* another record was handed over and released.
C6_Witness ==
    \E h \in Hnd, g \in Hnd, r \in ExtRec \ given :
        /\ hOp = Op("moveAssign", h, g) /\ h # g
        /\ mHandle[h] = RecPtr(r) /\ ~mOwnsHandle[h]
        /\ rec[r].st = "open"
        /\ \E q \in given : rec[q].st = "deleted"

\* C7: after setToExternal(p, n) the value has buffer p, length n and no
\* ownership; no value ever owns memory the caller lent, and no operation
\* frees it or writes to it.
C7_ExternalNeverReleased ==
    [][/\ \A v \in Str, d \in DataArgs :
            (StringSetToExternal(v, d) /\ ~fatal') =>
                /\ mBuffer'[v] = d.data
                /\ mSize'[v] = d.size.lo
                /\ ~mOwnsBuffer'[v]
       /\ \A v \in Str : mBuffer'[v].k = "ext" => ~mOwnsBuffer'[v]
       /\ extFrees' = {}
       /\ extMem' = ExtMem]_vars

\* C7 witness: a value set to a lent buffer was moved into another value,
\* and both point to the lent buffer.
C7_Witness ==
    \E v \in Str, w \in Str :
        /\ v # w /\ sOp = Op("moveAssign", v, w)
        /\ mBuffer[v].k = "ext" /\ mBuffer[w] = mBuffer[v] /\ mSize[v] > 0
        /\ extFrees = {}

\* An operation that changes v without taking another value.
Mutates(v) ==
    \/ StringClear(v)
    \/ StringDtor(v)
    \/ \E s \in CStrArgs : StringAssignCStr(v, s)
    \/ \E d \in DataArgs : StringAssignStd(v, d)

\* C8: a copy y of any value x has x's length and bytes in a separately
\* allocated buffer of its own, x being left as it was; afterwards
\* reassigning, clearing or destroying one of two values with separate
\* buffers leaves the other's pointer, length, ownership and bytes unchanged.
C8_CopyIndependent ==
    [][/\ \A x \in Str, y \in Str :
            (x # y /\ ~fatal' /\ (StringCtorCopy(y, x) \/ StringCopyAssign(y, x))) =>
                /\ mSize'[y] = mSize[x]
                /\ Bytes(Next_, y) = Bytes(Cur, x)
                /\ Bytes(Next_, x) = Bytes(Cur, x)
                /\ mOwnsBuffer'[y] /\ mBuffer'[y].k = "heap"
                /\ mBuffer'[y] # mBuffer'[x]
       /\ \A v \in Str, w \in Str :
            (v # w /\ sAlive[w] /\ mBuffer[v] # mBuffer[w] /\ Mutates(v)) =>
                /\ mBuffer'[w] = mBuffer[w]
                /\ mSize'[w] = mSize[w]
                /\ mOwnsBuffer'[w] = mOwnsBuffer[w]
                /\ Bytes(Next_, w) = Bytes(Cur, w)]_vars

\* getTransport has been called.
Called == tCalls # << >>
FnsCalled == {tCalls[i].fn : i \in 1..Len(tCalls)}
ManifestFns ==
    {"GetFrameworkHalManifest", "GetDeviceHalManifest", "HalManifest::getTransport"}

\* C9: for a name that does not parse, or parses without a version,
\* getTransport returns EMPTY with one error-severity log record and calls
\* neither manifest accessor; validity is checked first, so a name that is
\* neither valid nor versioned is reported as invalid.
C9_InvalidNameIsEmpty ==
    (Called /\ (~tName.valid \/ ~tName.hasVersion)) =>
        /\ tRet = "EMPTY"
        /\ Len(tLog) = 1 /\ tLog[1].sev = "ERROR"
        /\ FnsCalled \cap ManifestFns = {}
        /\ tCalls[1].fn = "isValid"
        /\ IF tName.valid
           THEN /\ tCalls = <<Call("isValid"), Call("hasVersion")>>
                /\ tLog[1].event = "does not specify a version"
           ELSE /\ tCalls = <<Call("isValid")>>
                /\ tLog[1].event = "not a valid fully-qualified name"

\* C9 witness: getTransport was called with a name neither valid nor
\* versioned while both manifests declare a transport.
C9_Witness ==
    /\ Called /\ ~tName.valid /\ ~tName.hasVersion
    /\ frameworkManifest.present /\ deviceManifest.present
    /\ \E key \in HalKeys : frameworkManifest.hals[key] # "EMPTY"
    /\ \E key \in HalKeys : deviceManifest.hals[key] # "EMPTY"

\* The package is android.hidl or below it.
InFrameworkNamespace(package) ==
    Len(package) >= 2 /\ package[1] = "android" /\ package[2] = "hidl"

\* The calls of the last getTransport on manifest accessors, in order.
AccessorCalls ==
    SelectSeq(tCalls, LAMBDA c :
        c.fn \in {"GetFrameworkHalManifest", "GetDeviceHalManifest"})
LookupCalls == SelectSeq(tCalls, LAMBDA c : c.fn = "HalManifest::getTransport")

\* C10: for a valid versioned name getTransport asks for one manifest, the
\* framework one if the package is in android.hidl and the device one
\* otherwise, looks the name up in that manifest alone (when it is not null)
\* and never turns to the other manifest.
C10_OneManifest ==
    (Called /\ tName.valid /\ tName.hasVersion) =>
        LET fw == InFrameworkNamespace(tName.package)
            selected == IF fw THEN frameworkManifest ELSE deviceManifest
        IN  /\ AccessorCalls =
                   <<Call(IF fw THEN "GetFrameworkHalManifest"
                                ELSE "GetDeviceHalManifest")>>
            /\ Len(LookupCalls) <= 1
            /\ \A i \in 1..Len(LookupCalls) :
                   LookupCalls[i].on = (IF fw THEN "framework" ELSE "device")
            /\ Len(tLog) = 1
            /\ tLog[1].manifest = (IF fw THEN "framework" ELSE "device")

\* C10 witness: a versioned name in android.hidl was looked up in a framework
\* manifest without an entry for it, the device manifest declaring one, and
\* the result is EMPTY with the framework manifest's warning.
C10_Witness ==
    LET key == << <<"android", "hidl", "manager">>, <<1, 0>> >>
    IN  /\ Called /\ tName.valid /\ tName.hasVersion
        /\ <<tName.package, tName.version>> = key
        /\ frameworkManifest.present /\ frameworkManifest.hals[key] = "EMPTY"
        /\ deviceManifest.present /\ deviceManifest.hals[key] = "HWBINDER"
        /\ tRet = "EMPTY"
        /\ tLog = <<LogRecord("WARNING", "cannot find entry", "framework")>>

\* The manifest getTransport selects for a name, and its label.
SelectedManifest(name) ==
    IF InFrameworkNamespace(name.package) THEN frameworkManifest ELSE deviceManifest
ManifestLabel(name) ==
    IF InFrameworkNamespace(name.package) THEN "framework" ELSE "device"

\* C11: when the manifest selected for a valid versioned name is null,
\* getTransport returns EMPTY, does not call the manifest's lookup, and emits
\* one warning-severity log record that names the manifest by its label.
C11_NullManifestIsEmpty ==
    [][\A name \in Names :
          (GetTransport(name) /\ name.valid /\ name.hasVersion
              /\ ~SelectedManifest(name).present) =>
              /\ tRet' = "EMPTY"
              /\ \A i \in 1..Len(tCalls') : tCalls'[i].fn # "HalManifest::getTransport"
              /\ tLog' = <<LogRecord("WARNING", "no manifest defined",
                                     ManifestLabel(name))>>]_vars

\* C11 witness: a vendor name was resolved while the device manifest is null
\* and the framework manifest declares transports; the result is EMPTY with
\* the warning about the device manifest.
C11_Witness ==
    /\ Called /\ tName.valid /\ tName.hasVersion
    /\ tName.package = <<"vendor", "acme", "foo">>
    /\ ~deviceManifest.present
    /\ frameworkManifest.present
    /\ \A key \in HalKeys : frameworkManifest.hals[key] # "EMPTY"
    /\ tRet = "EMPTY"
    /\ tLog = <<LogRecord("WARNING", "no manifest defined", "device")>>
    /\ LookupCalls = << >>

\* The severity the outcome of getTransport is logged at.
Severity(name, selected, ret) ==
    IF ~name.valid \/ ~name.hasVersion THEN "ERROR"
    ELSE IF ~selected.present \/ ret = "EMPTY" THEN "WARNING"
    ELSE "DEBUG"

\* C12: when the selected manifest is not null, getTransport returns what the
\* manifest's getTransport(package, {major, minor}) returns for the parsed
\* package and version, and the one log record is debug iff that is not EMPTY
\* and warning iff it is; over all outcomes the severity is error for invalid
\* and unversioned names, warning for a missing manifest or entry, and debug
\* for a successful lookup.
C12_EntryVerbatim ==
    [][\A name \in Names :
          GetTransport(name) =>
              LET selected == SelectedManifest(name)
                  lookups == SelectSeq(tCalls', LAMBDA c :
                                 c.fn = "HalManifest::getTransport")
              IN  /\ Len(tLog') = 1
                  /\ tLog'[1].sev = Severity(name, selected, tRet')
                  /\ (name.valid /\ name.hasVersion /\ selected.present) =>
                        /\ tRet' = HalManifest_getTransport(
                                       selected, name.package, name.version)
                        /\ lookups = <<[fn |-> "HalManifest::getTransport",
                                        on |-> ManifestLabel(name),
                                        package |-> name.package,
                                        version |-> name.version]>>
                        /\ (tLog'[1].sev = "DEBUG") = (tRet' # "EMPTY")
                        /\ (tLog'[1].sev = "WARNING") = (tRet' = "EMPTY")]_vars

\* C12 witness: version 2.1 of a vendor package, the one version the device
\* manifest declares, resolved to PASSTHROUGH with a debug record.
C12_Witness ==
    LET key == << <<"vendor", "acme", "foo">>, <<2, 1>> >>
    IN  /\ Called /\ <<tName.package, tName.version>> = key
        /\ tName.valid /\ tName.hasVersion
        /\ deviceManifest.present /\ deviceManifest.hals[key] = "PASSTHROUGH"
        /\ tRet = "PASSTHROUGH"
        /\ tLog = <<LogRecord("DEBUG", "declares transport", "device")>>

\* What a call of getTransport(name) made in the current state gives.
Decision(name) == getTransport(name, frameworkManifest, deviceManifest)

CopiesData(v, d) ==
    StringCtorData(v, d) \/ StringCtorStd(v, d) \/ StringAssignStd(v, d)

\* C14: construction from pointer and length, construction and assignment
\* from a host string, and setToExternal end in the fatal state when the
\* length exceeds 2^32-1; when an operation taking a length does not end in
\* the fatal state, the stored 32-bit length is the requested length, never
\* its value modulo 2^32; and setToExternal checks the length before clear(),
\* so the fatal one has released and changed nothing.
C14_SizeCeiling ==
    [][/\ \A v \in Str, d \in DataArgs :
            (CopiesData(v, d) \/ StringSetToExternal(v, d)) =>
                /\ ExceedsUint32(d.size) => fatal'
                /\ ~fatal' => (d.size.hi = 0 /\ mSize'[v] = d.size.lo)
       /\ \A v \in Str, d \in DataArgs :
            (StringSetToExternal(v, d) /\ ExceedsUint32(d.size)) =>
                UNCHANGED <<sAlive, mBuffer, mSize, mOwnsBuffer, heap, extFrees, extMem>>
       /\ \A v \in Str, s \in ExtPtrs :
            ((StringCtorCStr(v, s) \/ StringAssignCStr(v, s)) /\ ~fatal') =>
                mSize'[v] = Strlen(Cur, s)]_vars

\* C14 witness: setToExternal with a length beyond 2^32-1 on a value that owns
\* a buffer ended in the fatal state, the value still owning its buffer.
C14_Witness ==
    \E v \in Str :
        /\ fatal /\ sOp = Op("setToExternal", v, v)
        /\ sAlive[v] /\ mOwnsBuffer[v] /\ mBuffer[v].k = "heap"
        /\ heap[mBuffer[v].id].st = "live" /\ mSize[v] > 0

\* C15: constructing a hidl_string from a byte sequence B and its length
\* (B empty, or with zero bytes inside) gives size() = |B| and an owned buffer
\* holding B followed by a zero byte, and converting the value to a host
\* string gives B.
C15_ByteRoundTrip ==
    [][\A v \in Str, d \in DataArgs :
          ((StringCtorData(v, d) \/ StringCtorStd(v, d)) /\ ~fatal') =>
              \A B \in Read(Cur, d.data, d.size.lo) :
                  /\ mSize'[v] = Len(B)
                  /\ mOwnsBuffer'[v] /\ mBuffer'[v].k = "heap"
                  /\ heap'[mBuffer'[v].id].st = "live"
                  /\ heap'[mBuffer'[v].id].bytes = B \o <<0>>
                  /\ Bytes(Next_, v) = {B}]_vars

\* C15 witness: a value constructed from the two bytes <<0, 1>>, the first
\* of them zero, holds them followed by the terminator.
C15_Witness ==
    \E v \in Str :
        /\ sAlive[v] /\ ~fatal /\ sOp.name \in {"ctorData", "ctorStd"} /\ sOp.self = v
        /\ mSize[v] = 2 /\ mOwnsBuffer[v] /\ mBuffer[v].k = "heap"
        /\ heap[mBuffer[v].id].bytes = <<0, 1, 0>>
        /\ Bytes(Cur, v) = {<<0, 1>>}

\* C16: copy-assigning or move-assigning a hidl_string or a hidl_handle to
\* itself leaves its pointer, length and ownership flag as they were and
\* allocates, frees, clones, closes and deletes nothing.
C16_SelfAssignNoOp ==
    [][/\ \A v \in Str :
            (StringCopyAssign(v, v) \/ StringMoveAssign(v, v)) =>
                /\ UNCHANGED <<sAlive, mBuffer, mSize, mOwnsBuffer>>
                /\ UNCHANGED <<heap, extFrees, extMem, fatal>>
       /\ \A h \in Hnd :
            (HandleCopyAssign(h, h) \/ HandleMoveAssign(h, h)) =>
                /\ UNCHANGED <<hAlive, mHandle, mOwnsHandle>>
                /\ UNCHANGED <<rec, given, fatal>>
                /\ hcalls' = << >>]_vars

\* C16 witness: a handle that owns an open record was copy-assigned to
\* itself and still owns it, no native_handle_* call having been made.
C16_Witness ==
    \E h \in Hnd :
        /\ hOp = Op("copyAssign", h, h) /\ ~fatal
        /\ hAlive[h] /\ mOwnsHandle[h] /\ mHandle[h] # nullptr
        /\ rec[mHandle[h].id] = [st |-> "open", closes |-> 0, deletes |-> 0]
        /\ hcalls = << >>

\* The pointers a hidl_handle can hold.
RecPtrs == {RecPtr(r) : r \in Rec} \cup {nullptr}

\* The release the operation on h starts with: close, then delete, of the
\* record h holds, when h owns it and it is not null, and else nothing.
Released(h) ==
    IF hAlive[h] /\ mOwnsHandle[h] /\ mHandle[h] # nullptr
    THEN Release(mHandle[h])
    ELSE << >>

\* C17: destruction, copy and move assignment over a value, assignment of a
\* raw record and setTo release the value's record only if the value owns it
\* and it is not null, by one close followed by one delete of that record,
\* before the new record is cloned or adopted; after setTo(record, shouldOwn)
\* the value holds record with ownership shouldOwn.
C17_ReleaseOrder ==
    [][/\ \A h \in Hnd :
            HandleDtor(h) => hcalls' = Released(h)
       /\ \A h \in Hnd, p \in RecPtrs :
            HandleAssignRaw(h, p) => hcalls' = Released(h)
       /\ \A h \in Hnd, p \in RecPtrs, shouldOwn \in BOOLEAN :
            HandleSetTo(h, p, shouldOwn) =>
                /\ hcalls' = Released(h)
                /\ mHandle'[h] = p /\ mOwnsHandle'[h] = shouldOwn
       /\ \A h \in Hnd, o \in Hnd :
            (h # o /\ (HandleMoveAssign(h, o) \/ HandleCtorMove(h, o))) =>
                hcalls' = Released(h)
       /\ \A h \in Hnd, o \in Hnd :
            (h # o /\ (HandleCopyAssign(h, o) \/ HandleCtorCopy(h, o))) =>
                hcalls' = Released(h) \o
                              (IF mHandle[o] # nullptr
                               THEN <<[op |-> "clone", h |-> mHandle[o]]>>
                               ELSE << >>)]_vars

\* C17 witness: setTo(record, true) on a value that owned another record
\* closed and then deleted that record, and the value owns the new one.
C17_Witness ==
    \E h \in Hnd, p \in RecPtrs \ {nullptr} :
        /\ hOp = Op("setTo", h, h)
        /\ hcalls = Release(p)
        /\ rec[p.id].st = "deleted"
        /\ mHandle[h] \notin {nullptr, p} /\ mOwnsHandle[h]
        /\ rec[mHandle[h].id].st = "open"

\* C18: every buffer the component has allocated and not freed is owned by a
\* live hidl_string, so that none is left once every value is destroyed and
\* none is freed twice; and every record native_handle_clone made is owned by
\* a live hidl_handle until it is closed and deleted, once each.
C18_NoLeak ==
    /\ \A b \in Heap :
          /\ heap[b].st = "live" =>
                \E v \in Str : sAlive[v] /\ mOwnsBuffer[v] /\ mBuffer[v] = HeapPtr(b)
          /\ heap[b].frees <= 1
    /\ (\A v \in Str : ~sAlive[v]) => (\A b \in Heap : heap[b].st # "live")
    /\ \A r \in CloneRec :
          /\ rec[r].st = "open" =>
                /\ \E h \in Hnd : hAlive[h] /\ mOwnsHandle[h] /\ mHandle[h] = RecPtr(r)
                /\ rec[r].closes = 0 /\ rec[r].deletes = 0
          /\ rec[r].st = "deleted" => (rec[r].closes = 1 /\ rec[r].deletes = 1)
    /\ (\A h \in Hnd : ~hAlive[h]) => (\A r \in CloneRec : rec[r].st # "open")

\* C18 witness: the destruction of a value has freed its buffer, once, and
\* no buffer is left allocated.
C18_Witness ==
    /\ sOp.name = "dtor" /\ ~fatal
    /\ \E b \in Heap : heap[b].st = "freed" /\ heap[b].frees = 1
    /\ \A b \in Heap : heap[b].st # "live"

\* The block a read through pointer p touches is allocated (or p points to
\* no block of the allocator's).
Readable(m, p) == p.k = "heap" => m.heap[p.id].st = "live"

\* C19: with the value API alone (no setToExternal), the buffer pointer of
\* every live value is the empty sentinel or a buffer that has not been
\* freed, and copy construction and copy assignment do not read a freed
\* buffer.
C19_NoUseAfterRelease ==
    [][/\ \A v \in Str :
            sAlive'[v] =>
                \/ mBuffer'[v] = kEmptyString
                \/ mBuffer'[v].k = "heap" /\ heap'[mBuffer'[v].id].st = "live"
       /\ \A v \in Str, w \in Str :
            StringCtorCopy(v, w) => Readable(Cur, mBuffer[w])
       /\ \A v \in Str, w \in Str :
            (v # w /\ StringCopyAssign(v, w)) => Readable(clear(Cur, v), mBuffer[w])]_vars

\* C20 as stated: a live hidl_handle whose ownership flag is true has a
\* non-null record pointer.
C20_OwnerIsNonNull ==
    \A h \in Hnd : (hAlive[h] /\ mOwnsHandle[h]) => mHandle[h] # nullptr

\* The value has the ownership flag set and a null pointer.
OwningNull(h) == hAlive[h] /\ mOwnsHandle[h] /\ mHandle[h] = nullptr

\* C20 (amended): between public operations a hidl_handle whose ownership
\* flag is true has a non-null record pointer, unless it was given
\* setTo(nullptr, true) or was moved to from a value in that state, which it
\* stays in until it is next assigned, set, moved from or destroyed.
C20_OwnerNullOnlyBySetTo ==
    [][\A h \in Hnd :
          (~fatal' /\ hAlive'[h] /\ mOwnsHandle'[h] /\ mHandle'[h] = nullptr) =>
              \/ HandleSetTo(h, nullptr, TRUE)
              \/ \E o \in Hnd \ {h} :
                    OwningNull(o) /\ (HandleMoveAssign(h, o) \/ HandleCtorMove(h, o))
              \/ /\ OwningNull(h)
                 /\ \/ hOp'.self # h
                    \/ hOp' \in {Op("copyAssign", h, h), Op("moveAssign", h, h)}]_vars

\* C20 witness: a value given setTo(nullptr, true) was moved into another
\* value, which now has the ownership flag set and a null pointer.
C20_Witness ==
    \E h \in Hnd, o \in Hnd :
        /\ h # o /\ hOp = Op("moveAssign", h, o)
        /\ OwningNull(h)
        /\ hAlive[o] /\ ~mOwnsHandle[o] /\ mHandle[o] = nullptr
        /\ hcalls # << >>

====
